---------------------------- MODULE Spec2Model ----------------------------
(***************************************************************************)
(* Model of Sumini Pro (Suno Architect): the chat session of src/App.tsx   *)
(* (handleSend, handleClear, the messages effect), the request pipeline of *)
(* src/services/geminiService.ts (generateContentResponse), the reply      *)
(* parser (parseSongFromText) and the rendering of a model message by      *)
(* MessageList.                                                            *)
(*                                                                         *)
(* Text is a sequence of tokens.  A token is one character (" ", "\n",     *)
(* ",", "a", ...) or one fixed literal of the program (a section header,   *)
(* a canned directive, a clause of the prompt template): the literals are  *)
(* only ever searched for, emitted or compared as a whole.                 *)
(***************************************************************************)
EXTENDS Integers, Sequences, FiniteSets, TLC

(***************************************************************************)
(* Bounds of the model.                                                    *)
(***************************************************************************)
MaxLen == 5

(***************************************************************************)
(* String helpers of the JavaScript runtime, on token sequences.           *)
(***************************************************************************)
WhiteSpace == {" ", "\n"}

LineTerminators == {"\n"}

Undefined == <<"<undefined>">>

Null == [null |-> TRUE]

Slice(s, from, to) == IF from > to THEN <<>> ELSE SubSeq(s, from, to)

\* smallest index >= from whose token is not in the set, Len(s) + 1 when none
RECURSIVE SkipWhile(_, _, _)
SkipWhile(s, from, set) ==
  IF from > Len(s) THEN Len(s) + 1
  ELSE IF s[from] \in set THEN SkipWhile(s, from + 1, set)
  ELSE from

\* smallest index >= from whose token is in the set, Len(s) + 1 when none
RECURSIVE SkipUntil(_, _, _)
SkipUntil(s, from, set) ==
  IF from > Len(s) THEN Len(s) + 1
  ELSE IF s[from] \in set THEN from
  ELSE SkipUntil(s, from + 1, set)

\* largest index <= from whose token is not in the set, 0 when none
RECURSIVE SkipBackWhile(_, _, _)
SkipBackWhile(s, from, set) ==
  IF from < 1 THEN 0
  ELSE IF s[from] \in set THEN SkipBackWhile(s, from - 1, set)
  ELSE from

\* String.prototype.trim
Trim(s) ==
  LET b == SkipWhile(s, 1, WhiteSpace)
      e == SkipBackWhile(s, Len(s), WhiteSpace)
  IN  Slice(s, b, e)

\* x?.trim()
OptTrim(s) == IF s = Undefined THEN Undefined ELSE Trim(s)

\* !x for a string or undefined
Falsy(s) == s = Undefined \/ s = <<>>

\* String.prototype.indexOf(literal, from), 1-based, 0 when absent
IndexOf(s, tok, from) ==
  LET i == SkipUntil(s, from, {tok}) IN IF i > Len(s) THEN 0 ELSE i

(***************************************************************************)
(* parseSongFromText (src/services/geminiService.ts): the five regular     *)
(* expressions, matched as the backtracking engine matches them.           *)
(***************************************************************************)
HTitle == "## Title:"
HVoice == "## Voice:"
HTags == "## Tags:"
HStyle == "## Style:"
HLyrics == "## Lyrics:"

Headers == {HTitle, HVoice, HTags, HStyle, HLyrics}

NotSpecified == <<"Not specified">>

\* /## Title:\s*(.+)/ tried at the header at index i: the capture, or
\* Undefined when the pattern does not match there.  \s* is greedy; when it
\* ran to the end of the text it gives characters back until (.+) finds a
\* character that is not a line terminator.
TitleAt(text, i) ==
  LET j == SkipWhile(text, i + 1, WhiteSpace)
      m == SkipBackWhile(text, Len(text), LineTerminators)
  IN  IF j <= Len(text)
      THEN Slice(text, j, SkipUntil(text, j, LineTerminators) - 1)
      ELSE IF m > i THEN Slice(text, m, m)
      ELSE Undefined

\* text.match(/## Title:\s*(.+)/)?.[1]: the leftmost header where it matches
RECURSIVE MatchTitleFrom(_, _)
MatchTitleFrom(text, from) ==
  LET i == IndexOf(text, HTitle, from)
  IN  IF i = 0 THEN Undefined
      ELSE IF TitleAt(text, i) # Undefined THEN TitleAt(text, i)
      ELSE MatchTitleFrom(text, i + 1)

MatchTitle(text) == MatchTitleFrom(text, 1)

\* text.match(/<head>\s*([\s\S]*?)(?=<next>)/)?.[1]: the leftmost head that
\* has a next header somewhere after it; greedy \s*, then the lazy capture
\* stops at the first next header.
MatchBlock(text, head, next) ==
  LET i == IndexOf(text, head, 1)
      p == IF i = 0 THEN 0 ELSE IndexOf(text, next, i + 1)
      j == SkipWhile(text, i + 1, WhiteSpace)
  IN  IF i = 0 \/ p = 0 THEN Undefined
      ELSE Slice(text, j, p - 1)

\* text.match(/## Lyrics:\s*([\s\S]*)/)?.[1]
MatchLyricsOneLine(text) ==
  LET i == IndexOf(text, HLyrics, 1)
      j == SkipWhile(text, i + 1, WhiteSpace)
  IN  IF i = 0 THEN Undefined
      ELSE Slice(text, j, SkipUntil(text, j, LineTerminators) - 1)

MatchLyrics(text) ==
  LET i == IndexOf(text, HLyrics, 1)
      j == SkipWhile(text, i + 1, WhiteSpace)
  IN  IF i = 0 THEN Undefined
      ELSE Slice(text, j, Len(text))

\* s.replace(/\n/g, ",")
ReplaceNewlinesNone(s) == s

ReplaceNewlines(s) == [k \in 1..Len(s) |-> IF s[k] = "\n" THEN "," ELSE s[k]]

\* s.split(",")
RECURSIVE SplitComma(_)
SplitComma(s) ==
  LET c == IndexOf(s, ",", 1)
  IN  IF c = 0 THEN <<s>>
      ELSE <<Slice(s, 1, c - 1)>> \o SplitComma(Slice(s, c + 1, Len(s)))

\* pieces.map(t => t.trim()).filter(Boolean)
RECURSIVE TrimAndDrop(_)
TrimAndDrop(pieces) ==
  IF pieces = <<>> THEN <<>>
  ELSE LET t == Trim(Head(pieces))
       IN  (IF t = <<>> THEN <<>> ELSE <<t>>) \o TrimAndDrop(Tail(pieces))

ParseTags(rawTags) ==
  IF rawTags = Undefined THEN <<>>
  ELSE TrimAndDrop(SplitComma(ReplaceNewlines(rawTags)))

\* the validation gate: if (!title || !style || !lyrics) return null
GateNoTitle(title, style, lyrics) == Falsy(style) \/ Falsy(lyrics)

Gate(title, style, lyrics) == Falsy(title) \/ Falsy(style) \/ Falsy(lyrics)

\* v ?? "Not specified"
VoiceOrEmpty(v) == IF v = Undefined THEN <<>> ELSE v

VoiceOrDefault(v) == IF v = Undefined THEN NotSpecified ELSE v

parseSongFromText(text) ==
  LET title == OptTrim(MatchTitle(text))
      voice == VoiceOrDefault(OptTrim(MatchBlock(text, HVoice, HTags)))
      rawTags == OptTrim(MatchBlock(text, HTags, HStyle))
      style == OptTrim(MatchBlock(text, HStyle, HLyrics))
      lyrics == OptTrim(MatchLyrics(text))
  IN  IF Gate(title, style, lyrics) THEN Null
      ELSE [title |-> title, voice |-> voice, style |-> style,
            tags |-> ParseTags(rawTags), lyrics |-> lyrics]

(***************************************************************************)
(* MessageList (src/services/geminiService.ts): what the list renders for  *)
(* one message of the model.                                               *)
(***************************************************************************)
Hidden == [hidden |-> TRUE]

NoBubble == <<"<no bubble>">>

\* msg.content.split('## Title:')[0]
BeforeTitle(content) ==
  LET i == IndexOf(content, HTitle, 1)
  IN  IF i = 0 THEN content ELSE Slice(content, 1, i - 1)

\* the element of messages.map for a message of role 'model': null (Hidden),
\* or the text bubble and the song card it holds
RenderModelMessage(content) ==
  LET parsed == parseSongFromText(content)
      shown == Trim(BeforeTitle(content))
  IN  IF content = <<>> /\ parsed = Null THEN Hidden
      ELSE IF parsed = Null /\ shown = <<>> THEN Hidden
      ELSE [bubble |-> IF parsed = Null THEN shown ELSE NoBubble,
            card |-> parsed]

(***************************************************************************)
(* generateContentResponse (src/services/geminiService.ts): the mode       *)
(* logic, the prompt template, the model selection.  Literals are written  *)
(* in ASCII (the source's emoji and en dash are left out of the tokens).   *)
(***************************************************************************)
NORMAL == "NORMAL"
RANDOM == "RANDOM"
CRAZY == "CRAZY"
TRENDING == "TRENDING"
KPOP_RANDOM == "KPOP_RANDOM"
KPOP_3_VOICES == "KPOP_3_VOICES"
THINKING == "THINKING"

GeneratorMode == {NORMAL, RANDOM, CRAZY, TRENDING, KPOP_RANDOM, KPOP_3_VOICES, THINKING}

ENGLISH == "English"
ARABIC == "Arabic"
MIXED == "Mixed (Arabic/English)"

LyricsLanguage == {ENGLISH, ARABIC, MIXED}

ProModel == "gemini-3-pro-preview"

FlashModel == "gemini-2.5-flash"

\* the keys of the modePrompts object literal
ModePromptKeys == {RANDOM, CRAZY, KPOP_RANDOM, KPOP_3_VOICES, TRENDING, THINKING}

\* modePrompts[mode] for a key of the object
modePrompts(mode) ==
  CASE mode = RANDOM -> <<"Create a commercially strong hit with an unforgettable hook.">>
    [] mode = CRAZY -> <<"Fuse incompatible genres into an experimental but coherent track.">>
    [] mode = KPOP_RANDOM -> <<"Create a top-tier K-Pop song with strong English hooks.">>
    [] mode = KPOP_3_VOICES -> <<"Create a K-Pop trio. Use strict bracketed singer tags.">>
    [] mode = TRENDING -> <<"Search current 2024-2025 viral music trends and write a hit.">>
    [] mode = THINKING -> <<"Compose a complex, layered musical masterpiece.">>

\* useSearch once the modePrompts literal is built: its TRENDING entry is
\* an immediately-invoked function that sets the flag, and it runs whenever
\* the literal is evaluated, whatever the mode
UseSearch(mode) == TRUE

\* the directive: finalPrompt before the settings block is appended
DirectiveIgnoringText(prompt, mode) ==
  IF mode \in ModePromptKeys THEN modePrompts(mode) ELSE prompt

DirectiveKeepingText(prompt, mode) ==
  IF mode \in ModePromptKeys /\ Trim(prompt) = <<>> THEN modePrompts(mode) ELSE prompt

Directive(prompt, mode) ==
  IF mode \in ModePromptKeys
  THEN (IF mode = THINKING /\ Trim(prompt) # <<>> THEN prompt ELSE modePrompts(mode))
  ELSE prompt

\* structure.includes("EDM")
IncludesEDM(structure) == structure = "EDM/Club"

\* moodDesc after the three pushes
MoodDescInclusive(mood, structure) ==
  (IF mood.darkBright <= 30 THEN <<"Dark, Minor Key">>
   ELSE IF mood.darkBright >= 70 THEN <<"Bright, Major Key">>
   ELSE <<>>)
  \o
  (IF mood.cleanGritty >= 70 THEN <<"Gritty, Saturated, Lo-fi">>
   ELSE IF mood.cleanGritty <= 30 THEN <<"Clean, Polished">>
   ELSE <<>>)
  \o
  (IF mood.energy >= 70
   THEN (IF IncludesEDM(structure) THEN <<"Festival Energy, Big Drops">>
         ELSE <<"High Energy, Aggressive Groove">>)
   ELSE IF mood.energy <= 30 THEN <<"Chill, Ambient, Low Energy">>
   ELSE <<>>)

MoodDesc(mood, structure) ==
  (IF mood.darkBright < 30 THEN <<"Dark, Minor Key">>
   ELSE IF mood.darkBright > 70 THEN <<"Bright, Major Key">>
   ELSE <<>>)
  \o
  (IF mood.cleanGritty > 70 THEN <<"Gritty, Saturated, Lo-fi">>
   ELSE IF mood.cleanGritty < 30 THEN <<"Clean, Polished">>
   ELSE <<>>)
  \o
  (IF mood.energy > 70
   THEN (IF IncludesEDM(structure) THEN <<"Festival Energy, Big Drops">>
         ELSE <<"High Energy, Aggressive Groove">>)
   ELSE IF mood.energy < 30 THEN <<"Chill, Ambient, Low Energy">>
   ELSE <<>>)

\* pieces.join(", ")
RECURSIVE Join(_)
Join(pieces) ==
  IF pieces = <<>> THEN <<>>
  ELSE IF Len(pieces) = 1 THEN <<pieces[1]>>
  ELSE <<pieces[1], ", ">> \o Join(Tail(pieces))

\* moodDesc.join(", ") || "Balanced"
ToneLine(mood, structure) ==
  IF MoodDesc(mood, structure) = <<>> THEN <<"Balanced">>
  ELSE Join(MoodDesc(mood, structure))

VocalConstraint(vocal) ==
  IF vocal.gender # "Any" \/ vocal.texture # "Any"
  THEN <<"[CONSTRAINT: Voice must be ", vocal.texture, " ", vocal.gender, "]">>
  ELSE <<>>

StructureConstraintAlways(structure) ==
  <<"[CONSTRAINT: Use strict ", structure, " structure]">>

StructureConstraint(structure) ==
  IF structure # "Auto"
  THEN <<"[CONSTRAINT: Use strict ", structure, " structure]">>
  ELSE <<>>

LangConstraint(lyricsLanguage) ==
  IF lyricsLanguage = ARABIC
  THEN <<"Lyrics strictly in ARABIC (Egyptian/Gulf).", " ", "Style & Tags in ENGLISH.">>
  ELSE IF lyricsLanguage = MIXED
  THEN <<"Lyrics in Arabic + English mix.", " ", "Style & Tags in ENGLISH.">>
  ELSE <<"Lyrics in ENGLISH only.">>

\* the template with the language line moved to the top of the block
SettingsBlockLanguageFirst(settings, isRadioEdit, hasIntro, lyricsLanguage) ==
  <<"\n", "=== STUDIO SETTINGS ===", "\n">>
  \o <<"Language: ">> \o LangConstraint(lyricsLanguage) \o <<"\n", "Tone: ">>
  \o ToneLine(settings.mood, settings.structure) \o <<"\n">>
  \o VocalConstraint(settings.vocal) \o <<"\n">>
  \o StructureConstraint(settings.structure) \o <<"\n">>
  \o (IF hasIntro THEN <<"Include [Instrumental Intro]">> ELSE <<>>) \o <<"\n">>
  \o (IF isRadioEdit THEN <<"Keep under 3 minutes (Radio Edit)">> ELSE <<>>) \o <<"\n">>
  \o <<"\n", "[CRITICAL OUTPUT RULE]", "\n",
       "BPM and Musical Key MUST appear inside ## Tags.", "\n">>

\* the template literal appended to finalPrompt
SettingsBlock(settings, isRadioEdit, hasIntro, lyricsLanguage) ==
  <<"\n", "=== STUDIO SETTINGS ===", "\n", "Tone: ">>
  \o ToneLine(settings.mood, settings.structure) \o <<"\n">>
  \o VocalConstraint(settings.vocal) \o <<"\n">>
  \o StructureConstraint(settings.structure) \o <<"\n">>
  \o <<"Language: ">> \o LangConstraint(lyricsLanguage) \o <<"\n">>
  \o (IF hasIntro THEN <<"Include [Instrumental Intro]">> ELSE <<>>) \o <<"\n">>
  \o (IF isRadioEdit THEN <<"Keep under 3 minutes (Radio Edit)">> ELSE <<>>) \o <<"\n">>
  \o <<"\n", "[CRITICAL OUTPUT RULE]", "\n",
       "BPM and Musical Key MUST appear inside ## Tags.", "\n">>

FinalPrompt(prompt, mode, settings, isRadioEdit, hasIntro, lyricsLanguage) ==
  Directive(prompt, mode)
  \o SettingsBlock(settings, isRadioEdit, hasIntro, lyricsLanguage)

ModelName(mode, appSettings) ==
  IF mode = THINKING THEN ProModel
  ELSE IF appSettings.modelPreference = "quality" THEN ProModel
  ELSE FlashModel

\* createSession(model, enableTools) followed by chat.sendMessage: the call
\* as the transport sees it
ModelCall(model, enableTools, mode, appSettings, history, message) ==
  [model |-> model,
   tools |-> enableTools,
   systemInstruction |-> "SYSTEM_INSTRUCTION",
   temperature |-> appSettings.temperature,
   thinking |-> (mode = THINKING),
   history |-> history,
   message |-> message]

\* the first call of generateContentResponse
FirstCall(prompt, mode, settings, appSettings, isRadioEdit, hasIntro, lyricsLanguage, history) ==
  ModelCall(ModelName(mode, appSettings), UseSearch(mode), mode, appSettings, history,
            FinalPrompt(prompt, mode, settings, isRadioEdit, hasIntro, lyricsLanguage))

\* the call of the catch block
FallbackCallSameSession(first, mode, appSettings) == first

FallbackCallPro(first, mode, appSettings) ==
  ModelCall(ProModel, FALSE, mode, appSettings, first.history, first.message)

FallbackCall(first, mode, appSettings) ==
  ModelCall(FlashModel, FALSE, mode, appSettings, first.history, first.message)

(***************************************************************************)
(* Bounds of the session model and the inputs it draws from.               *)
(***************************************************************************)
MaxReq == 2

MaxDevToasts == 1

\* the (text, mode) pairs handleSend is called with in the session
SendInputs ==
  {[text |-> <<>>, mode |-> NORMAL],
   [text |-> <<"a">>, mode |-> NORMAL],
   [text |-> <<"Dain", " ">>, mode |-> NORMAL],
   [text |-> <<>>, mode |-> TRENDING]}

\* the texts, modes and settings the request pipeline is checked on
UserTexts == {<<>>, <<" ">>, <<"a">>, <<" ", "a">>, <<"Dain", " ">>}

MoodValues == {29, 50, 71}

Moods == [darkBright : MoodValues, cleanGritty : MoodValues, energy : MoodValues]

Vocals == [gender : {"Any", "Female"}, texture : {"Any", "Raspy"}]

Structures == {"Auto", "EDM/Club"}

AppSettingsChoices == [modelPreference : {"speed", "quality"}, temperature : {"t"}]

\* the outcomes of one model call: a reply text (possibly empty) or an error
ReplyTexts == {<<>>, <<"reply">>}

ErrorKinds == {"transient", "API key"}

(***************************************************************************)
(* State.                                                                  *)
(***************************************************************************)
VARIABLES
  messages,            \* useState: the chat, a sequence of Message
  historyRef,          \* useRef: the history handed to the next request
  storedHistory,       \* localStorage 'sumini_chat_history': <<>> or <<messages>>
  effectPending,       \* the messages effect is scheduled and has not run
  abortControllerRef,  \* useRef: 0 (null) or the request whose controller it holds
  aborted,             \* the requests whose controller has been aborted
  requests,            \* one record per handleSend call that issued a request
  isLoading,           \* useState
  isGenerating,        \* useState
  errorToast,          \* useState: NoToast (null) or a message
  toastTimers,         \* pending setTimeout(() => setErrorToast(null))
  isDevMode,           \* useState (isSettingsOpen is set together with it)
  settings,            \* useState: the studio settings, flags and language
  appSettings,         \* SettingsContext: generation preferences
  replyText,           \* the reply text handed to parseSongFromText
  replyParts,          \* the fields the reply text was built from, or NoParts
  song,                \* its result, Unparsed until the parser has run
  rendered             \* what MessageList renders for a model message with
                       \* that text, NotRendered until it has rendered it

sessionVars == <<messages, historyRef, storedHistory, effectPending,
                 abortControllerRef, aborted, requests, isLoading,
                 isGenerating, errorToast, toastTimers, isDevMode>>

settingsVars == <<settings, appSettings>>

parserVars == <<replyText, replyParts, song, rendered>>

vars == <<sessionVars, settingsVars, parserVars>>

(***************************************************************************)
(* The session of src/App.tsx.                                             *)
(***************************************************************************)
NoToast == "<null>"
DevToast == "Developer Mode Activated"
KeyToast == "Failed: API Key missing. Check Vercel Env Vars."
GenericToast == "Generation failed. Please try again."

InitMessage ==
  [id |-> "init", req |-> 0, role |-> "model",
   content |-> <<"Studio initialized. Ready for production.">>]

ResetMessage ==
  [id |-> "welcome", req |-> 0, role |-> "model",
   content |-> <<"Session cleared. Ready for a new track.">>]

\* a map that keeps the newest entry only
ToHistoryLast(msgs) ==
  IF msgs = <<>> THEN <<>>
  ELSE <<[role |-> msgs[Len(msgs)].role, text |-> msgs[Len(msgs)].content]>>

\* messages.map(m => ({ role: m.role, parts: [{ text: m.content }] }))
RECURSIVE ToHistory(_)
ToHistory(msgs) ==
  IF msgs = <<>> THEN <<>>
  ELSE <<[role |-> Head(msgs).role, text |-> Head(msgs).content]>> \o ToHistory(Tail(msgs))

DefaultSettings ==
  [mood |-> [darkBright |-> 50, cleanGritty |-> 50, energy |-> 50],
   vocal |-> [gender |-> "Any", texture |-> "Any"],
   structure |-> "Auto",
   isRadioEdit |-> FALSE,
   hasIntro |-> FALSE,
   lyricsLanguage |-> ENGLISH]

DefaultAppSettings == [modelPreference |-> "speed", temperature |-> "t"]

Unparsed == [unparsed |-> TRUE]

NoParts == [parts |-> FALSE]

NotRendered == [rendered |-> FALSE]

NoCall == [none |-> TRUE]

\* the state once App has mounted with nothing saved and its effect has run
SessionInit ==
  /\ messages = <<InitMessage>>
  /\ historyRef = ToHistory(<<InitMessage>>)
  /\ storedHistory = <<(<<InitMessage>>)>>
  /\ effectPending = FALSE
  /\ abortControllerRef = 0
  /\ aborted = {}
  /\ requests = <<>>
  /\ isLoading = FALSE
  /\ isGenerating = FALSE
  /\ errorToast = NoToast
  /\ toastTimers = 0
  /\ isDevMode = FALSE

SettingsInit ==
  /\ settings = DefaultSettings
  /\ appSettings = DefaultAppSettings

ParserIdle ==
  /\ replyText = <<>>
  /\ replyParts = NoParts
  /\ song = Unparsed
  /\ rendered = NotRendered

Init == SessionInit /\ SettingsInit /\ ParserIdle

\* text.toLowerCase()
ToLowerCase(s) == [k \in 1..Len(s) |-> IF s[k] = "Dain" THEN "dain" ELSE s[k]]

IsDevTrigger(text, mode) == mode = NORMAL /\ ToLowerCase(Trim(text)) = <<"dain">>

IsIgnored(text, mode) == Trim(text) = <<>> /\ mode = NORMAL

DisplayContent(text, mode) ==
  CASE mode = RANDOM -> <<"Generating Random Hit...">>
    [] mode = TRENDING -> <<"Analyzing Trends & Generating...">>
    [] mode = CRAZY -> <<"Going Crazy Mode...">>
    [] mode = KPOP_RANDOM -> <<"Generating K-Pop Hit...">>
    [] mode = KPOP_3_VOICES -> <<"Generating Trio Track...">>
    [] mode = THINKING ->
         <<"[Deep Think] ">> \o (IF text = <<>> THEN <<"Complex Masterpiece">> ELSE text)
    [] OTHER -> text

UserMessage(r, text, mode) ==
  [id |-> "Date.now()", req |-> r, role |-> "user", content |-> DisplayContent(text, mode)]

AssistantMessage(r, responseText) ==
  [id |-> "Date.now()+1", req |-> r, role |-> "model", content |-> responseText]

\* if (abortControllerRef.current) abortControllerRef.current.abort()
AbortNone(ref) == aborted

AbortCurrent(ref) == IF ref # 0 THEN aborted \cup {ref} ELSE aborted

\* what handleSend and generateContentResponse keep of one request: the
\* arguments the closures captured, the calls made, how it ended, and
\* whether the session was cleared after it was issued
NewRequest(text, mode, app, call) ==
  [text |-> text, mode |-> mode, appSettings |-> app, phase |-> "call1",
   first |-> call, fallback |-> NoCall,
   fail1 |-> "none", err1 |-> "none", fail2 |-> "none", err2 |-> "none",
   result |-> "pending", responseText |-> Undefined, thrown |-> "none",
   supersededBy |-> 0, cleared |-> FALSE, toast |-> NoToast]

\* the request the slot held is marked as superseded by request r
Superseded(reqs, ref, r) ==
  IF ref # 0 THEN [reqs EXCEPT ![ref].supersededBy = r] ELSE reqs

\* handleSend(text, mode) up to its await
handleSend(text, mode) ==
  IF IsDevTrigger(text, mode)
  THEN /\ toastTimers < MaxDevToasts
       /\ isDevMode' = TRUE
       /\ errorToast' = DevToast
       /\ toastTimers' = toastTimers + 1
       /\ UNCHANGED <<messages, historyRef, storedHistory, effectPending,
                      abortControllerRef, aborted, requests, isLoading,
                      isGenerating>>
  ELSE IF IsIgnored(text, mode)
  THEN UNCHANGED sessionVars
  ELSE LET r == Len(requests) + 1
           call == FirstCall(text, mode, settings, appSettings, settings.isRadioEdit,
                             settings.hasIntro, settings.lyricsLanguage, historyRef)
       IN  /\ Len(requests) < MaxReq
           /\ aborted' = AbortCurrent(abortControllerRef)
           /\ abortControllerRef' = r
           /\ messages' = Append(messages, UserMessage(r, text, mode))
           /\ effectPending' = TRUE
           /\ isLoading' = TRUE
           /\ isGenerating' = TRUE
           /\ errorToast' = NoToast
           /\ requests' = Append(Superseded(requests, abortControllerRef, r),
                                 NewRequest(text, mode, appSettings, call))
           /\ UNCHANGED <<historyRef, storedHistory, toastTimers, isDevMode>>

Send ==
  /\ \E in \in SendInputs : handleSend(in.text, in.mode)
  /\ UNCHANGED <<settingsVars, parserVars>>

\* the finally block of handleSend, for request r
FinallyUnguarded(r) ==
  /\ isLoading' = FALSE
  /\ isGenerating' = FALSE
  /\ abortControllerRef' = 0

FinallyNever(r) == UNCHANGED <<isLoading, isGenerating, abortControllerRef>>

Finally(r) ==
  IF abortControllerRef = r
  THEN /\ isLoading' = FALSE
       /\ isGenerating' = FALSE
       /\ abortControllerRef' = 0
  ELSE UNCHANGED <<isLoading, isGenerating, abortControllerRef>>

\* if (controller.signal.aborted) return, in the try block of handleSend
DiscardsNever(r) == FALSE

Discards(r) == r \in aborted

\* the try block of handleSend after the await, with the reply of request r
OnResponse(r, responseText) ==
  /\ IF ~Discards(r) /\ responseText # <<>>
     THEN /\ messages' = Append(messages, AssistantMessage(r, responseText))
          /\ effectPending' = TRUE
     ELSE UNCHANGED <<messages, effectPending>>
  /\ requests' = [requests EXCEPT ![r].phase = "done", ![r].result = "returned",
                                  ![r].responseText = responseText]
  /\ Finally(r)
  /\ UNCHANGED <<historyRef, storedHistory, aborted, errorToast, toastTimers,
                 isDevMode>>

\* err.message?.includes('API key') || err.message?.includes('403') || ...
IsKeyError(kind) == kind = "API key"

ToastAlwaysGeneric(kind) == GenericToast

ToastFor(kind) == IF IsKeyError(kind) THEN KeyToast ELSE GenericToast

\* if (err.name === 'AbortError' || controller.signal.aborted)
SilentNever(r) == FALSE

Silent(r) == r \in aborted

\* the catch block of handleSend, with the error thrown for request r; reqs
\* is requests with the failed call recorded
OnError(r, kind, reqs) ==
  /\ IF Silent(r)
     THEN /\ requests' = [reqs EXCEPT ![r].phase = "done", ![r].result = "threw",
                                      ![r].thrown = kind]
          /\ UNCHANGED <<errorToast, toastTimers>>
     ELSE /\ errorToast' = ToastFor(kind)
          /\ toastTimers' = toastTimers + 1
          /\ requests' = [reqs EXCEPT ![r].phase = "done", ![r].result = "threw",
                                      ![r].thrown = kind, ![r].toast = ToastFor(kind)]
  /\ Finally(r)
  /\ UNCHANGED <<messages, historyRef, storedHistory, effectPending, aborted,
                 isDevMode>>

InFlight(r) == r \in 1..Len(requests) /\ requests[r].phase # "done"

\* the first call of request r returns
FirstCallReturns ==
  /\ \E r \in 1..Len(requests), responseText \in ReplyTexts :
       /\ requests[r].phase = "call1"
       /\ OnResponse(r, responseText)
  /\ UNCHANGED <<settingsVars, parserVars>>

\* if (signal?.aborted) throw err, in the catch block of generateContentResponse
RethrowsNever(r) == FALSE

Rethrows(r) == r \in aborted

\* the first call of request r fails: the catch block of generateContentResponse
\* (fail1 records whether the token was cancelled at that time)
FirstCallFails ==
  /\ \E r \in 1..Len(requests), kind \in ErrorKinds :
       LET reqs == [requests EXCEPT
                      ![r].fail1 = IF r \in aborted THEN "cancelled" ELSE "live",
                      ![r].err1 = kind]
       IN  /\ requests[r].phase = "call1"
           /\ IF Rethrows(r)
              THEN OnError(r, kind, reqs)
              ELSE /\ requests' =
                        [reqs EXCEPT ![r].phase = "call2",
                           ![r].fallback = FallbackCall(requests[r].first, requests[r].mode,
                                                        requests[r].appSettings)]
                   /\ UNCHANGED <<messages, historyRef, storedHistory, effectPending,
                                  abortControllerRef, aborted, isLoading, isGenerating,
                                  errorToast, toastTimers, isDevMode>>
  /\ UNCHANGED <<settingsVars, parserVars>>

\* the fallback call of request r returns
FallbackReturns ==
  /\ \E r \in 1..Len(requests), responseText \in ReplyTexts :
       /\ requests[r].phase = "call2"
       /\ OnResponse(r, responseText)
  /\ UNCHANGED <<settingsVars, parserVars>>

\* the fallback call of request r fails: the error leaves generateContentResponse
FallbackFails ==
  /\ \E r \in 1..Len(requests), kind \in ErrorKinds :
       /\ requests[r].phase = "call2"
       /\ OnError(r, kind,
            [requests EXCEPT ![r].fail2 = IF r \in aborted THEN "cancelled" ELSE "live",
                             ![r].err2 = kind])
  /\ UNCHANGED <<settingsVars, parserVars>>

handleClear ==
  /\ aborted' = AbortCurrent(abortControllerRef)
  /\ abortControllerRef' = 0
  /\ isLoading' = FALSE
  /\ isGenerating' = FALSE
  /\ errorToast' = NoToast
  /\ messages' = <<ResetMessage>>
  /\ effectPending' = TRUE
  /\ historyRef' = ToHistory(<<ResetMessage>>)
  /\ storedHistory' = <<>>
  /\ requests' = [r \in 1..Len(requests) |-> [requests[r] EXCEPT !.cleared = TRUE]]
  /\ UNCHANGED <<toastTimers, isDevMode>>
  /\ UNCHANGED <<settingsVars, parserVars>>

\* useEffect(..., [messages])
MessagesEffect ==
  /\ effectPending
  /\ storedHistory' = <<messages>>
  /\ historyRef' = ToHistory(messages)
  /\ effectPending' = FALSE
  /\ UNCHANGED <<messages, abortControllerRef, aborted, requests, isLoading,
                 isGenerating, errorToast, toastTimers, isDevMode>>
  /\ UNCHANGED <<settingsVars, parserVars>>

\* setTimeout(() => setErrorToast(null), ...)
ToastTimeout ==
  /\ toastTimers > 0
  /\ toastTimers' = toastTimers - 1
  /\ errorToast' = NoToast
  /\ UNCHANGED <<messages, historyRef, storedHistory, effectPending,
                 abortControllerRef, aborted, requests, isLoading,
                 isGenerating, isDevMode>>
  /\ UNCHANGED <<settingsVars, parserVars>>

Next ==
  \/ Send
  \/ FirstCallReturns
  \/ FirstCallFails
  \/ FallbackReturns
  \/ FallbackFails
  \/ handleClear
  \/ MessagesEffect
  \/ ToastTimeout

Spec == Init /\ [][Next]_vars

(***************************************************************************)
(* The request pipeline on its own: the settings are drawn from the        *)
(* bounded sets, then handleSend is called once with any text and mode.    *)
(***************************************************************************)
AllSettings ==
  [mood : Moods, vocal : Vocals, structure : Structures, isRadioEdit : BOOLEAN,
   hasIntro : BOOLEAN, lyricsLanguage : LyricsLanguage]

InitGen ==
  /\ SessionInit
  /\ settings \in AllSettings
  /\ appSettings \in AppSettingsChoices
  /\ ParserIdle

Generate ==
  /\ requests = <<>>
  /\ \E text \in UserTexts, mode \in GeneratorMode : handleSend(text, mode)
  /\ UNCHANGED <<settingsVars, parserVars>>

NextGen == Generate

SpecGen == InitGen /\ [][NextGen]_vars

(***************************************************************************)
(* The session when every model call eventually returns or fails: a call   *)
(* that is in flight is not left waiting for ever.                         *)
(***************************************************************************)
CallEnds ==
  \/ FirstCallReturns
  \/ FirstCallFails
  \/ FallbackReturns
  \/ FallbackFails

SpecLive == Init /\ [][Next]_vars /\ WF_vars(CallEnds)

(***************************************************************************)
(* One generation with its two model calls: the generation preferences are *)
(* drawn from the bounded sets, handleSend is called once with any text    *)
(* and mode, and each model call returns or fails.                         *)
(***************************************************************************)
Temperatures == {"t", "u"}

RetryAppSettings == [modelPreference : {"speed", "quality"}, temperature : Temperatures]

InitRetry ==
  /\ SessionInit
  /\ settings \in {DefaultSettings,
                   [DefaultSettings EXCEPT !.structure = "EDM/Club", !.hasIntro = TRUE]}
  /\ appSettings \in RetryAppSettings
  /\ ParserIdle

NextRetry ==
  \/ Generate
  \/ FirstCallReturns
  \/ FirstCallFails
  \/ FallbackReturns
  \/ FallbackFails

SpecRetry == InitRetry /\ [][NextRetry]_vars

(***************************************************************************)
(* The mood translation over the whole range of a knob: one axis takes     *)
(* every value of the range while the two others take the values around    *)
(* the thresholds, then handleSend is called once.                         *)
(***************************************************************************)
KnobMin == 0

KnobMax == 100

KnobRange == KnobMin..KnobMax

MoodGrid ==
  [darkBright : KnobRange, cleanGritty : MoodValues, energy : MoodValues]
    \cup [darkBright : MoodValues, cleanGritty : KnobRange, energy : MoodValues]
    \cup [darkBright : MoodValues, cleanGritty : MoodValues, energy : KnobRange]

InitMood ==
  /\ SessionInit
  /\ settings \in {[DefaultSettings EXCEPT !.mood = m, !.structure = st] :
                     m \in MoodGrid, st \in Structures}
  /\ appSettings = DefaultAppSettings
  /\ ParserIdle

NextMood == Generate

SpecMood == InitMood /\ [][NextMood]_vars

(***************************************************************************)
(* The parser as a state machine: a reply text from the bounded set, then  *)
(* MessageList renders a model message with that text, which is where      *)
(* parseSongFromText is called.                                            *)
(***************************************************************************)
Alphabet == Headers \cup {"a", " ", "\n", ","}

\* every text of at most MaxLen tokens
ShortTexts == UNION {[1..n -> Alphabet] : n \in 0..MaxLen}

\* replies in the shape of the output format: each section absent, or its
\* header and a content from the set, in the order of the format
SectionContents ==
  {<<>>, <<" ">>, <<"a">>, <<"a", "\n", "a">>, <<"a", ",", " ", "a", "\n", "a">>}

Section(head, sep, c) == IF c = Undefined THEN <<>> ELSE <<head, sep>> \o c \o <<"\n">>

FormatTexts ==
  {Section(HTitle, " ", t) \o Section(HVoice, "\n", v) \o Section(HTags, "\n", g)
     \o Section(HStyle, "\n", st) \o Section(HLyrics, "\n", l) :
       t \in {Undefined, <<>>, <<"a">>},
       v \in {Undefined, <<>>, <<"a", "\n", "a">>},
       g \in {Undefined} \cup SectionContents,
       st \in {Undefined, <<>>, <<" ">>, <<"a", ",", " ", "a">>},
       l \in {Undefined, <<>>, <<"a", "\n", "a">>}}

\* the tags block '#120 BPM, #A Minor<newline>#House' inside a complete reply
TagsExample ==
  <<"#120", " ", "BPM", ",", " ", "#A", " ", "Minor", "\n", "#House">>

ExampleTexts ==
  {Section(HTitle, " ", <<"a">>) \o Section(HVoice, "\n", <<"a">>)
     \o Section(HTags, "\n", TagsExample) \o Section(HStyle, "\n", <<"a">>)
     \o Section(HLyrics, "\n", <<"a">>)}

Texts == ShortTexts \cup FormatTexts \cup ExampleTexts

\* replies built from known fields: the five headers in the order of the
\* output format, the tags joined by commas, by line breaks or by a mix
MaxTags == 3

Titles == {<<"a">>, <<" ", "a", " ", "a", " ">>}

Voices == {<<"a">>, <<"a", "\n", "a", "\n">>}

Styles == {<<"a", ",", " ", "a">>, <<"\n", "a">>}

LyricsTexts == {<<"a", "\n", "a">>, <<"a", ",", "a", "\n", "\n", "a", " ">>}

TagValues == {<<"a">>, <<"#120", " ", "BPM">>, <<" ">>, <<HLyrics>>}

TagLists == UNION {[1..n -> TagValues] : n \in 0..MaxTags}

Separators == {<<",">>, <<"\n">>, <<",", " ">>}

ReplyParts ==
  UNION {[title : Titles, voice : Voices, tags : {g},
          seps : [1..(Len(g) - 1) -> Separators],
          style : Styles, lyrics : LyricsTexts] : g \in TagLists}

RECURSIVE JoinTags(_, _)
JoinTags(tags, seps) ==
  IF tags = <<>> THEN <<>>
  ELSE IF Len(tags) = 1 THEN tags[1]
  ELSE tags[1] \o seps[1] \o JoinTags(Tail(tags), Tail(seps))

BuildReply(parts) ==
  Section(HTitle, " ", parts.title) \o Section(HVoice, "\n", parts.voice)
    \o Section(HTags, "\n", JoinTags(parts.tags, parts.seps))
    \o Section(HStyle, "\n", parts.style) \o Section(HLyrics, "\n", parts.lyrics)

InitParse ==
  /\ SessionInit
  /\ SettingsInit
  /\ \/ /\ replyText \in Texts
        /\ replyParts = NoParts
     \/ /\ replyParts \in ReplyParts
        /\ replyText = BuildReply(replyParts)
  /\ song = Unparsed
  /\ rendered = NotRendered

Parse ==
  /\ song = Unparsed
  /\ song' = parseSongFromText(replyText)
  /\ rendered' = RenderModelMessage(replyText)
  /\ UNCHANGED <<replyText, replyParts, sessionVars, settingsVars>>

NextParse == Parse

SpecParse == InitParse /\ [][NextParse]_vars

(***************************************************************************)
(* Properties.                                                             *)
(***************************************************************************)
Requests == 1..Len(requests)

ModelMessagesOf(r) ==
  {i \in 1..Len(messages) : messages[i].req = r /\ messages[i].role = "model"}

MessagesOf(r) == {i \in 1..Len(messages) : messages[i].req = r}

CallsOf(r) == IF requests[r].fallback = NoCall THEN 1 ELSE 2

\* C1: a request superseded by a newer one while it was in flight never has
\* its reply in the message list, whether the reply came from its first call
\* or from its fallback call.
C1_SupersededReplyDiscarded ==
  \A r \in Requests : requests[r].supersededBy # 0 => ModelMessagesOf(r) = {}

\* a request superseded while its fallback call was in flight got a
\* non-empty reply from that call
C1_Witness ==
  \E r \in Requests :
    /\ requests[r].supersededBy # 0
    /\ requests[r].fail1 = "live"
    /\ requests[r].result = "returned"
    /\ requests[r].responseText # <<>>

\* C2: a request that failed (both calls failed) or was cancelled has left
\* nothing of its own in the message list.
C2_FailedRequestLeavesNoMessage ==
  \A r \in Requests :
    (requests[r].phase = "done" /\ (requests[r].result = "threw" \/ r \in aborted))
      => MessagesOf(r) = {}

\* C3: parseSongFromText returns null or a record with the five fields whose
\* title, style and lyrics are present and non-empty.
C3_SongOrNull ==
  song # Unparsed =>
    \/ song = Null
    \/ /\ DOMAIN song = {"title", "voice", "style", "tags", "lyrics"}
       /\ ~Falsy(song.title)
       /\ ~Falsy(song.style)
       /\ ~Falsy(song.lyrics)

\* a song was returned for a text whose headers are out of order, and null
\* for a text in the format that lacks a section
C3_Witness ==
  /\ song # Unparsed
  /\ \/ /\ song # Null
        /\ IndexOf(replyText, HLyrics, 1) < IndexOf(replyText, HTitle, 1)
     \/ /\ song = Null
        /\ replyText \in FormatTexts
        /\ IndexOf(replyText, HStyle, 1) = 0

\* the section of a header: absent, or empty (only whitespace between the
\* header and the next header or the end of the text)
SectionAbsent(text, head) == IndexOf(text, head, 1) = 0

SectionEmpty(text, head) ==
  LET i == IndexOf(text, head, 1)
      j == SkipWhile(text, i + 1, WhiteSpace)
  IN  i # 0 /\ (j > Len(text) \/ text[j] \in Headers)

\* C4: when the Title, Style or Lyrics section is absent or empty, the
\* result is null.
C4_MissingSectionGivesNull ==
  (/\ song # Unparsed
   /\ \E head \in {HTitle, HStyle, HLyrics} :
        SectionAbsent(replyText, head) \/ SectionEmpty(replyText, head))
    => song = Null

\* C5 as stated: a request whose first call failed while it was not cancelled
\* made exactly one further call, against the lower-tier model, and when that
\* call failed too (with an error of the service, not of the key) the failure
\* reached the caller and the generic failure message was shown; no request
\* makes more than two calls.
C5_Original ==
  \A r \in Requests :
    /\ CallsOf(r) <= 2
    /\ requests[r].fail1 = "live" =>
         /\ CallsOf(r) = 2
         /\ requests[r].fallback.model = FlashModel
         /\ (requests[r].fail2 # "none" /\ ~IsKeyError(requests[r].err2)) =>
              /\ requests[r].result = "threw"
              /\ requests[r].thrown = requests[r].err2
              /\ requests[r].toast = GenericToast

\* C5 amended: as above, but the message is shown only when the request is
\* still not cancelled at the time the fallback fails, and it is the API-key
\* guidance when the error is a key error, the generic message otherwise.
C5_OneFallbackThenSurfaced ==
  \A r \in Requests :
    /\ CallsOf(r) <= 2
    /\ requests[r].fail1 = "live" =>
         /\ CallsOf(r) = 2
         /\ requests[r].fallback.model = FlashModel
         /\ requests[r].fail2 # "none" =>
              /\ requests[r].result = "threw"
              /\ requests[r].thrown = requests[r].err2
              /\ requests[r].toast =
                   IF requests[r].fail2 = "cancelled" THEN NoToast
                   ELSE IF IsKeyError(requests[r].err2) THEN KeyToast
                   ELSE GenericToast

\* both calls of a request that was never cancelled failed, the second with
\* a transient error, and the generic message is on screen
C5_Witness ==
  \E r \in Requests :
    /\ requests[r].fail1 = "live"
    /\ requests[r].fail2 = "live"
    /\ requests[r].err2 = "transient"
    /\ errorToast = GenericToast

\* C6: a request whose token was cancelled when its first call failed made no
\* fallback call and rethrew that failure; every fallback call belongs to a
\* request that was not cancelled when its first call failed.
C6_CancelledNeverRetries ==
  \A r \in Requests :
    /\ requests[r].fail1 = "cancelled" =>
         /\ requests[r].fallback = NoCall
         /\ requests[r].result = "threw"
         /\ requests[r].thrown = requests[r].err1
    /\ requests[r].fallback # NoCall => requests[r].fail1 = "live"

C6_Witness ==
  \E r \in Requests :
    /\ requests[r].fail1 = "cancelled"
    /\ requests[r].phase = "done"
    /\ requests[r].fallback = NoCall

\* C7: the slot holds nothing or a request in flight whose token is not
\* cancelled; every other request in flight is cancelled, so at most one
\* request in flight has a token that is not cancelled.
C7_SingleSlot ==
  /\ abortControllerRef # 0 =>
       InFlight(abortControllerRef) /\ abortControllerRef \notin aborted
  /\ \A r \in Requests :
       (InFlight(r) /\ r # abortControllerRef) => r \in aborted
  /\ Cardinality({r \in Requests : InFlight(r) /\ r \notin aborted}) <= 1

\* two requests in flight: the older one cancelled, the newer one in the slot
C7_Witness ==
  \E a, b \in Requests :
    /\ a < b
    /\ InFlight(a) /\ InFlight(b)
    /\ a \in aborted
    /\ abortControllerRef = b

\* C8: the first call of a request has the search tool enabled exactly when
\* the request's mode is TRENDING.
C8_SearchOnlyForTrending ==
  \A r \in Requests : requests[r].first.tools = (requests[r].mode = TRENDING)

CannedModes == {RANDOM, CRAZY, TRENDING, KPOP_RANDOM, KPOP_3_VOICES}

\* the directive of a request: its composed prompt without the settings block
DirectiveOf(r) ==
  LET block == SettingsBlock(settings, settings.isRadioEdit, settings.hasIntro,
                             settings.lyricsLanguage)
  IN  Slice(requests[r].first.message, 1, Len(requests[r].first.message) - Len(block))

\* the composed prompt of the request handleSend would issue now for a text
PromptFor(text, mode) ==
  FinalPrompt(text, mode, settings, settings.isRadioEdit, settings.hasIntro,
              settings.lyricsLanguage)

\* C9: in a canned mode the directive is the mode's canned string, and the
\* composed prompt is the one any other user text would have produced.
C9_CannedModeIgnoresText ==
  \A r \in Requests :
    requests[r].mode \in CannedModes =>
      /\ DirectiveOf(r) = modePrompts(requests[r].mode)
      /\ \A other \in UserTexts :
           requests[r].first.message = PromptFor(other, requests[r].mode)

C9_Witness ==
  \E r \in Requests :
    /\ requests[r].mode \in CannedModes
    /\ requests[r].text = <<" ", "a">>

\* C10 as stated: Deep Think uses a non-empty user text verbatim and its
\* canned directive only for the empty text; every other mode has a fixed
\* directive, whatever the text.
C10_Original ==
  \A r \in Requests :
    IF requests[r].mode = THINKING
    THEN DirectiveOf(r) =
           IF requests[r].text # <<>> THEN requests[r].text ELSE modePrompts(THINKING)
    ELSE \A other \in UserTexts :
           requests[r].first.message = PromptFor(other, requests[r].mode)

\* C10 amended: two modes keep the user's text.  NORMAL always uses it
\* verbatim; Deep Think uses it verbatim when it has a character that is not
\* whitespace and its canned directive otherwise; each of the five other
\* modes has its fixed canned directive, whatever the text.
C10_TextSurvivesInTwoModes ==
  \A r \in Requests :
    /\ requests[r].mode = NORMAL => DirectiveOf(r) = requests[r].text
    /\ requests[r].mode = THINKING =>
         DirectiveOf(r) =
           IF Trim(requests[r].text) # <<>> THEN requests[r].text
           ELSE modePrompts(THINKING)
    /\ requests[r].mode \in CannedModes =>
         /\ DirectiveOf(r) = modePrompts(requests[r].mode)
         /\ \A other \in UserTexts :
              requests[r].first.message = PromptFor(other, requests[r].mode)

\* Deep Think was sent a text with surrounding whitespace and kept it as is
C10_Witness ==
  \E r \in Requests :
    /\ requests[r].mode = THINKING
    /\ requests[r].text = <<" ", "a">>
    /\ DirectiveOf(r) = <<" ", "a">>

\* the Tags block of a reply: what lies between the first Tags header and the
\* first Style header after it, Undefined when there is no such pair
TagsBlock(text) ==
  LET i == IndexOf(text, HTags, 1)
      p == IF i = 0 THEN 0 ELSE IndexOf(text, HStyle, i + 1)
  IN  IF i = 0 \/ p = 0 THEN Undefined ELSE Slice(text, i + 1, p - 1)

\* the pieces of a block between separators of a set, in order
RECURSIVE PiecesOf(_, _)
PiecesOf(s, seps) ==
  LET c == SkipUntil(s, 1, seps)
  IN  IF c > Len(s) THEN <<s>>
      ELSE <<Slice(s, 1, c - 1)>> \o PiecesOf(Slice(s, c + 1, Len(s)), seps)

\* the pieces trimmed, the empty ones dropped
TrimmedPieces(s, seps) ==
  LET pieces == PiecesOf(s, seps)
      trimmed == [k \in 1..Len(pieces) |-> Trim(pieces[k])]
  IN  SelectSeq(trimmed, LAMBDA t : t # <<>>)

ExpectedTags(text) ==
  IF TagsBlock(text) = Undefined THEN <<>>
  ELSE TrimmedPieces(TagsBlock(text), {",", "\n"})

IsSong(s) == s # Unparsed /\ s # Null

\* C11: the tags of a parsed song are the pieces of the Tags block between
\* commas and line breaks, each trimmed, the empty ones dropped, in order and
\* with duplicates kept; no tag is empty or holds a comma or a line break or
\* surrounding whitespace; an absent or empty block gives no tags; the block
\* '#120 BPM, #A Minor<newline>#House' gives its three tags.
C11_TagsSplitOnBoth ==
  IsSong(song) =>
    /\ song.tags = ExpectedTags(replyText)
    /\ \A k \in 1..Len(song.tags) :
         /\ song.tags[k] # <<>>
         /\ Trim(song.tags[k]) = song.tags[k]
         /\ \A n \in 1..Len(song.tags[k]) : song.tags[k][n] \notin {",", "\n"}
    /\ (TagsBlock(replyText) = Undefined \/ Trim(TagsBlock(replyText)) = <<>>)
         => song.tags = <<>>
    /\ replyText \in ExampleTexts
         => song.tags = << <<"#120", " ", "BPM">>, <<"#A", " ", "Minor">>, <<"#House">> >>

\* the example block was parsed into its three tags
C11_Witness ==
  /\ IsSong(song)
  /\ replyText \in ExampleTexts
  /\ Len(song.tags) = 3

\* the headers of a list occur in the text, their first occurrences in the
\* order of the list
RECURSIVE InOrder(_, _, _)
InOrder(text, heads, from) ==
  IF heads = <<>> THEN TRUE
  ELSE LET i == IndexOf(text, Head(heads), 1)
       IN  i # 0 /\ i >= from /\ InOrder(text, Tail(heads), i + 1)

\* a reply with the Title, Tags, Style and Lyrics headers in that order, the
\* title, style and lyrics sections not empty, and no Voice header
NoVoiceReply(text) ==
  /\ InOrder(text, <<HTitle, HTags, HStyle, HLyrics>>, 1)
  /\ SectionAbsent(text, HVoice)
  /\ \A head \in {HTitle, HStyle, HLyrics} : ~SectionEmpty(text, head)

\* C12: a reply with the Title, Tags, Style and Lyrics headers in that order
\* and no Voice header, whose title, style and lyrics are not empty, parses
\* into a song whose voice is "Not specified".
C12_MissingVoiceGivesSentinel ==
  (song # Unparsed /\ NoVoiceReply(replyText)) =>
    /\ song # Null
    /\ song.voice = NotSpecified

C12_Witness ==
  /\ NoVoiceReply(replyText)
  /\ IsSong(song)
  /\ song.voice = NotSpecified
  /\ song.tags # <<>>

\* the song a reply built from known fields stands for
SongOf(parts) ==
  [title |-> Trim(parts.title), voice |-> Trim(parts.voice),
   style |-> Trim(parts.style), tags |-> parts.tags, lyrics |-> Trim(parts.lyrics)]

HeaderFree(s) == \A k \in 1..Len(s) : s[k] \notin Headers

PlainTag(t) == t # <<>> /\ Trim(t) = t /\ HeaderFree(t)

C14_CancelledNeverToasts ==
  [][\A r \in Requests :
       (r \in aborted /\ requests[r].phase # "done" /\ requests'[r].phase = "done")
         => /\ errorToast' = errorToast
            /\ toastTimers' = toastTimers
            /\ requests'[r].toast = NoToast]_vars

\* a request cancelled by clearing the session, not by a newer request, has
\* failed in its fallback call with a key error, and no toast is shown
C14_Witness ==
  \E r \in Requests :
    /\ r \in aborted
    /\ requests[r].supersededBy = 0
    /\ requests[r].fail2 = "cancelled"
    /\ requests[r].err2 = "API key"
    /\ requests[r].phase = "done"
    /\ errorToast = NoToast

\* C15: an error leaves generateContentResponse only for a request that was
\* cancelled when the failing call failed, and it is the error of that call;
\* the failure of every other call is caught inside.
C15_OnlyCancellationPropagates ==
  \A r \in Requests :
    requests[r].result = "threw" =>
      \/ requests[r].fail1 = "cancelled" /\ requests[r].thrown = requests[r].err1
      \/ requests[r].fail2 = "cancelled" /\ requests[r].thrown = requests[r].err2

\* C16: a model message whose text does not parse into a song (and is not
\* blank) is rendered as a text bubble holding the whole text, up to
\* surrounding whitespace: it is neither hidden nor cut.
C16_UnparsedShownRaw ==
  (song = Null /\ Trim(replyText) # <<>>) =>
    /\ rendered # Hidden
    /\ rendered.bubble = Trim(replyText)

MoodAxes == {"darkBright", "cleanGritty", "energy"}

\* the descriptor of the low end and the descriptors of the high end of an
\* axis (the high end of the energy axis has one for EDM structures and one
\* for the others)
LowDescriptors(axis) ==
  CASE axis = "darkBright" -> {"Dark, Minor Key"}
    [] axis = "cleanGritty" -> {"Clean, Polished"}
    [] axis = "energy" -> {"Chill, Ambient, Low Energy"}

HighDescriptors(axis) ==
  CASE axis = "darkBright" -> {"Bright, Major Key"}
    [] axis = "cleanGritty" -> {"Gritty, Saturated, Lo-fi"}
    [] axis = "energy" -> {"Festival Energy, Big Drops", "High Energy, Aggressive Groove"}

\* how many tokens of a text are in a set
Count(text, set) == Cardinality({k \in 1..Len(text) : text[k] \in set})

\* C17: in the composed prompt of every request, each axis of the mood has
\* its low descriptor once when its value is below 30 and not otherwise, a
\* high descriptor once when its value is above 70 and not otherwise, and so
\* nothing for a value from 30 to 70 and never two descriptors.
C17_MoodThreeBands ==
  \A r \in Requests : \A axis \in MoodAxes :
    LET v == settings.mood[axis]
        prompt == requests[r].first.message
    IN  /\ Count(prompt, LowDescriptors(axis)) = (IF v < 30 THEN 1 ELSE 0)
        /\ Count(prompt, HighDescriptors(axis)) = (IF v > 70 THEN 1 ELSE 0)
        /\ Count(prompt, LowDescriptors(axis) \cup HighDescriptors(axis)) <= 1

\* a prompt was composed with one axis on the threshold 30, one just above
\* 70 and one just below 30
C17_Witness ==
  \E r \in Requests :
    /\ settings.mood = [darkBright |-> 30, cleanGritty |-> 71, energy |-> 29]
    /\ Count(requests[r].first.message, {"Dark, Minor Key"}) = 0
    /\ Count(requests[r].first.message, {"Gritty, Saturated, Lo-fi"}) = 1
    /\ Count(requests[r].first.message, {"Chill, Ambient, Low Energy"}) = 1

\* the values of the vocal fields that are not the default
NonDefault(vocal) == {vocal.gender, vocal.texture} \ {"Any"}

\* C18: the composed prompt has the vocal clause, once, exactly when the
\* gender or the texture is not 'Any'; the clause names each field that is
\* not 'Any' and never the value 'Any'.
C18_VocalClauseOnlyNonDefault ==
  \A r \in Requests :
    LET prompt == requests[r].first.message
        vocal == settings.vocal
    IN  /\ Count(prompt, {"[CONSTRAINT: Voice must be "}) =
             (IF NonDefault(vocal) # {} THEN 1 ELSE 0)
        /\ \A value \in NonDefault(vocal) : Count(prompt, {value}) = 1
        /\ Count(prompt, {"Any"}) = 0

\* the language clause of a composed prompt: what follows "Language: " on
\* its line
LanguageClauseOf(prompt) ==
  LET i == IndexOf(prompt, "Language: ", 1)
  IN  Slice(prompt, i + 1, SkipUntil(prompt, i + 1, LineTerminators) - 1)

\* the three fixed sentences, by language
LanguageSentences ==
  {<<"Lyrics in ENGLISH only.">>,
   <<"Lyrics strictly in ARABIC (Egyptian/Gulf).", " ", "Style & Tags in ENGLISH.">>,
   <<"Lyrics in Arabic + English mix.", " ", "Style & Tags in ENGLISH.">>}

\* C19: the composed prompt of every request has one language line, its
\* clause is one of the three fixed sentences, and the clause says that
\* Style and Tags stay in English.
C19_LanguageClauseKeepsTagsEnglish ==
  \A r \in Requests :
    LET prompt == requests[r].first.message
    IN  /\ Count(prompt, {"Language: "}) = 1
        /\ LanguageClauseOf(prompt) \in LanguageSentences
        /\ Count(LanguageClauseOf(prompt), {"Style & Tags in ENGLISH."}) = 1

\* what does hold of the vocal and language clauses: the vocal clause is
\* there exactly when a field is not 'Any' and names every such field; there
\* is one language line and its clause is one of the three sentences
ClausePresence ==
  \A r \in Requests :
    LET prompt == requests[r].first.message
    IN  /\ Count(prompt, {"[CONSTRAINT: Voice must be "}) =
             (IF NonDefault(settings.vocal) # {} THEN 1 ELSE 0)
        /\ \A value \in NonDefault(settings.vocal) : Count(prompt, {value}) = 1
        /\ Count(prompt, {"Language: "}) = 1
        /\ LanguageClauseOf(prompt) \in LanguageSentences

Bit(b) == IF b THEN 1 ELSE 0

\* C20: in the composed prompt of every request the structure clause occurs
\* once, naming the structure, when the structure is not 'Auto' and not at
\* all otherwise; the intro clause once when hasIntro is set and not at all
\* otherwise; the radio-edit clause once when isRadioEdit is set and not at
\* all otherwise.
C20_OptionalClauses ==
  \A r \in Requests :
    LET prompt == requests[r].first.message
    IN  /\ Count(prompt, {"[CONSTRAINT: Use strict "}) = Bit(settings.structure # "Auto")
        /\ Count(prompt, {settings.structure}) = Bit(settings.structure # "Auto")
        /\ Count(prompt, {"Include [Instrumental Intro]"}) = Bit(settings.hasIntro)
        /\ Count(prompt, {"Keep under 3 minutes (Radio Edit)"}) = Bit(settings.isRadioEdit)

\* a prompt with the structure clause and the intro clause and without the
\* radio-edit clause
C20_Witness ==
  \E r \in Requests :
    /\ settings.structure = "EDM/Club"
    /\ settings.hasIntro
    /\ ~settings.isRadioEdit
    /\ Count(requests[r].first.message, {"[CONSTRAINT: Use strict "}) = 1
    /\ Count(requests[r].first.message, {"Include [Instrumental Intro]"}) = 1
    /\ Count(requests[r].first.message, {"Keep under 3 minutes (Radio Edit)"}) = 0

\* the parts of a composed prompt after the directive, in the order they are
\* to appear, each as the set of tokens that open it
PartsInOrder ==
  << {"=== STUDIO SETTINGS ==="},
     {"Tone: "},
     {"Dark, Minor Key", "Bright, Major Key"},
     {"Clean, Polished", "Gritty, Saturated, Lo-fi"},
     {"Chill, Ambient, Low Energy", "Festival Energy, Big Drops",
      "High Energy, Aggressive Groove"},
     {"Balanced"},
     {"[CONSTRAINT: Voice must be "},
     {"[CONSTRAINT: Use strict "},
     {"Language: "},
     {"Include [Instrumental Intro]"},
     {"Keep under 3 minutes (Radio Edit)"},
     {"[CRITICAL OUTPUT RULE]"} >>

Openers == UNION {PartsInOrder[k] : k \in 1..Len(PartsInOrder)}

PartIndex(token) == CHOOSE k \in 1..Len(PartsInOrder) : token \in PartsInOrder[k]

\* the parts that open in a prompt, by their index in PartsInOrder, in the
\* order in which they open
PartsOf(prompt) ==
  LET openers == SelectSeq(prompt, LAMBDA t : t \in Openers)
  IN  [n \in 1..Len(openers) |-> PartIndex(openers[n])]

RECURSIVE Increasing(_)
Increasing(seq) ==
  IF Len(seq) < 2 THEN TRUE
  ELSE seq[1] < seq[2] /\ Increasing(Tail(seq))

PartsPresent(parts) == {parts[n] : n \in 1..Len(parts)}

\* C21: the composed prompt of every request starts with the directive (the
\* user's text or the canned one), followed by the section header, the tone
\* line, the language line and the reminder, which are always there; the
\* parts that are present stand in the fixed order (descriptors of tone,
\* texture, energy, or 'Balanced' exactly when none fired; vocal, structure,
\* language, intro, radio edit, reminder), each of them once.
C21_FixedOrder ==
  \A r \in Requests :
    LET prompt == requests[r].first.message
        header == IndexOf(prompt, "=== STUDIO SETTINGS ===", 1)
    IN  /\ header > 1
        /\ Slice(prompt, 1, header - 2) = Directive(requests[r].text, requests[r].mode)
        /\ {1, 2, 9, 12} \subseteq PartsPresent(PartsOf(prompt))
        /\ (6 \in PartsPresent(PartsOf(prompt)))
             <=> (PartsPresent(PartsOf(prompt)) \cap {3, 4, 5} = {})
        /\ Increasing(PartsOf(prompt))

\* a prompt in which every optional part is present
C21_Witness ==
  \E r \in Requests :
    /\ PartsPresent(PartsOf(requests[r].first.message)) = (1..Len(PartsInOrder)) \ {6}
    /\ requests[r].mode = NORMAL

\* the reminder of a composed prompt: what follows "[CRITICAL OUTPUT RULE]"
ReminderOf(prompt) ==
  LET i == IndexOf(prompt, "[CRITICAL OUTPUT RULE]", 1)
  IN  IF i = 0 THEN <<>> ELSE Slice(prompt, i + 1, Len(prompt))

\* the sentences of the program that state the two hard rules of the format
TempoKeyRules == {"BPM and Musical Key MUST appear inside ## Tags."}

BracketRules ==
  {"Section labels MUST use brackets only.", "Use bracketed section tags only."}

\* C22: the composed prompt of every request ends with a reminder that
\* states the rule on tempo and key (they appear in the Tags section) and
\* the rule on section labels (they are bracketed).
C22_ReminderStatesBothRules ==
  \A r \in Requests :
    LET reminder == ReminderOf(requests[r].first.message)
    IN  /\ Count(reminder, TempoKeyRules) >= 1
        /\ Count(reminder, BracketRules) >= 1

\* what does hold of the reminder: it is there, it is the end of the prompt
\* and it states the rule on tempo and key, and nothing else
ReminderStatesTempoKeyRule ==
  \A r \in Requests :
    SelectSeq(ReminderOf(requests[r].first.message), LAMBDA t : t # "\n")
      = <<"BPM and Musical Key MUST appear inside ## Tags.">>

VoiceBlock(text) ==
  LET i == IndexOf(text, HVoice, 1)
  IN  Slice(text, i + 1, SkipUntil(text, i + 1, Headers) - 1)

\* C24: the voice of a parsed song is the trimmed Voice block when the reply
\* has a Voice header, and "Not specified" exactly when it has none.
C24_VoiceWheneverHeader ==
  IsSong(song) =>
    /\ ~SectionAbsent(replyText, HVoice) => song.voice = Trim(VoiceBlock(replyText))
    /\ (song.voice = NotSpecified) <=> SectionAbsent(replyText, HVoice)

\* C25: the first call of a request goes to the higher-tier model exactly
\* when the preference is 'quality' or the mode is Deep Think; the fallback
\* call, when there is one, carries the composed prompt, the history, the
\* system instruction and the temperature of the first call, goes to the
\* flash model and has the search tool off.
C25_FallbackSameRequestOnFlash ==
  \A r \in Requests :
    LET first == requests[r].first
        fallback == requests[r].fallback
    IN  /\ (first.model = ProModel)
             <=> (requests[r].appSettings.modelPreference = "quality"
                    \/ requests[r].mode = THINKING)
        /\ first.model \in {ProModel, FlashModel}
        /\ fallback # NoCall =>
             /\ fallback.message = first.message
             /\ fallback.history = first.history
             /\ fallback.systemInstruction = first.systemInstruction
             /\ fallback.temperature = first.temperature
             /\ fallback.model = FlashModel
             /\ fallback.tools = FALSE

\* a Deep Think request with the 'speed' preference went to the higher-tier
\* model with the search tool on, failed, and fell back
C25_Witness ==
  \E r \in Requests :
    /\ requests[r].mode = THINKING
    /\ requests[r].appSettings = [modelPreference |-> "speed", temperature |-> "u"]
    /\ requests[r].first.model = ProModel
    /\ requests[r].first.tools
    /\ requests[r].fallback # NoCall
    /\ requests[r].fallback.model = FlashModel
    /\ requests[r].fallback.temperature = "u"

\* C26: isLoading and isGenerating are true exactly when the slot holds a
\* controller, in every state; and the step in which a request that is not
\* in the slot (superseded or cleared) ends leaves the slot and the two
\* indicators as they were.
C26_LoadingIffSlotHeld ==
  /\ [](/\ isLoading = (abortControllerRef # 0)
        /\ isGenerating = (abortControllerRef # 0))
  /\ [][\A r \in Requests :
          (/\ requests[r].phase # "done"
           /\ requests'[r].phase = "done"
           /\ abortControllerRef # r)
            => UNCHANGED <<abortControllerRef, isLoading, isGenerating>>]_vars

\* a superseded request has ended while the newer one is still in flight,
\* in the slot, with the indicators on
C26_Witness ==
  \E a, b \in Requests :
    /\ a < b
    /\ requests[a].phase = "done"
    /\ a \in aborted
    /\ InFlight(b)
    /\ abortControllerRef = b
    /\ isLoading /\ isGenerating

Idle == ~isLoading /\ ~isGenerating /\ abortControllerRef = 0

\* C27: when every model call eventually returns or fails, the session ends
\* up idle for good once no further request is issued (the requests of a
\* behaviour are finitely many): the indicators are off and the slot is
\* empty, whatever sends, clears and late replies came before.
C27_EventuallyIdle == <>[]Idle

\* every request the session can issue has ended, one of them superseded
\* while its fallback call was in flight, and the session is idle
C27_Witness ==
  /\ Len(requests) = MaxReq
  /\ \A r \in Requests : requests[r].phase = "done"
  /\ \E r \in Requests : r \in aborted /\ requests[r].fail1 = "live"
  /\ Idle

\* C28: the step that clears the session cancels the request in the slot and
\* leaves exactly the reset message in the list; a request issued before a
\* clear is cancelled if it is still in flight, has no message in the list,
\* and the step in which it ends adds no message and sets no toast.
C28_ClearCancelsAndSilences ==
  /\ [](\A r \in Requests :
          requests[r].cleared =>
            /\ InFlight(r) => r \in aborted
            /\ MessagesOf(r) = {})
  /\ [][/\ (\E r \in Requests : ~requests[r].cleared /\ requests'[r].cleared)
            => /\ messages' = <<ResetMessage>>
               /\ abortControllerRef' = 0
               /\ abortControllerRef # 0 => abortControllerRef \in aborted'
        /\ \A r \in Requests :
             (/\ requests[r].cleared
              /\ requests[r].phase # "done"
              /\ Len(requests') = Len(requests)
              /\ requests'[r].phase = "done")
               => /\ UNCHANGED <<messages, errorToast, toastTimers>>
                  /\ requests'[r].toast = NoToast]_vars

\* the session was cleared while a request was in flight; afterwards the
\* request got a reply, and the list still holds the reset message alone
C28_Witness ==
  \E r \in Requests :
    /\ requests[r].cleared
    /\ requests[r].supersededBy = 0
    /\ requests[r].result = "returned"
    /\ requests[r].responseText # <<>>
    /\ messages = <<ResetMessage>>
    /\ errorToast = NoToast

\* the history has one entry per message, in the order of the list, with the
\* role and the content of that message
HistoryMatches(history, msgs) ==
  /\ Len(history) = Len(msgs)
  /\ \A i \in 1..Len(msgs) :
       /\ history[i].role = msgs[i].role
       /\ history[i].text = msgs[i].content

\* C29: once the messages effect has run, the stored record is the whole
\* message list and the history reference matches it entry for entry; a
\* request issued then is handed that history; after a clear both hold the
\* reset message alone.
C29_RecordIsEntireHistory ==
  /\ [](~effectPending =>
          /\ storedHistory = <<messages>>
          /\ HistoryMatches(historyRef, messages)
          /\ messages = <<ResetMessage>> =>
               /\ Len(historyRef) = 1
               /\ historyRef[1].text = ResetMessage.content)
  /\ [][(~effectPending /\ Len(requests') = Len(requests) + 1)
          => HistoryMatches(requests'[Len(requests')].first.history, messages)]_vars

\* the effect has run after a send, a reply and, before them, a clear
C29_Witness ==
  /\ ~effectPending
  /\ Len(messages) >= 3
  /\ messages[1] = ResetMessage
  /\ \E r \in Requests : ModelMessagesOf(r) # {}
  /\ \E r \in Requests : requests[r].cleared

=============================================================================
